---- MODULE Spec2Model ----
(***************************************************************************)
(* Model of draw_scene.cc: the setup sequence of main, the render loop,    *)
(* the Model entity, and the transform helpers (ComputeTranslation,        *)
(* ComputeRotation, ComputeProjectionMatrix, ComputeCotangent).            *)
(*                                                                         *)
(* Numbers: GLfloat values are modelled in fixed point, ONE units per 1.0. *)
(* Time is counted in ticks of 1/TicksPerSecond second.                    *)
(***************************************************************************)
EXTENDS Integers, Sequences, FiniteSets, TLC

\* ------------------------------------------------------------------------
\* Bounds of the model.
\* ------------------------------------------------------------------------
\* Largest value of the clock glfwGetTime(), in ticks.
MaxTime == 19
\* The frame counter saturates at this value.
MaxFrames == 3

\* ------------------------------------------------------------------------
\* Fixed-point arithmetic standing for GLfloat arithmetic.
\* ------------------------------------------------------------------------
ONE == 10000
TicksPerSecond == 10
\* Largest error, in fixed-point units, accepted by the comparisons below.
Tolerance == 20

Abs(x) == IF x < 0 THEN -x ELSE x

\* Division rounding toward zero, as C does on both integers and the
\* truncated fixed-point values.
Quot(a, b) ==
  IF (a >= 0) = (b > 0) THEN Abs(a) \div Abs(b) ELSE -(Abs(a) \div Abs(b))

Mul(a, b) == Quot(a * b, ONE)
Div(a, b) == Quot(a * ONE, b)

RECURSIVE SqrtIter(_, _)
SqrtIter(n, x) ==
  LET y == (x + n \div x) \div 2
  IN  IF y >= x THEN x ELSE SqrtIter(n, y)

\* Square root of a fixed-point value.
SqrtFx(a) == IF a <= 0 THEN 0 ELSE SqrtIter(a * ONE, a * ONE)

\* M_PI.
M_PI == 31416
TwoPi == 2 * M_PI
\* kHalfPi = 0.5f * M_PI.
kHalfPi == M_PI \div 2

\* sin on [-pi/2, pi/2] by its Taylor series.
SinSeries(r) ==
  LET r2 == Mul(r, r)
      t3 == Quot(Mul(r, r2), 6)
      t5 == Quot(Mul(t3, r2), 20)
      t7 == Quot(Mul(t5, r2), 42)
      t9 == Quot(Mul(t7, r2), 72)
  IN  r - t3 + t5 - t7 + t9

\* sin(x): reduction of x to [-pi, pi], then to [-pi/2, pi/2].
Sin(x) ==
  LET r == ((x + M_PI) % TwoPi) - M_PI
  IN  IF r > kHalfPi THEN SinSeries(M_PI - r)
      ELSE IF r < -kHalfPi THEN SinSeries(-M_PI - r)
      ELSE SinSeries(r)

Cos(x) == Sin(x + kHalfPi)

\* tan(x); at a pole the quotient saturates at a very large magnitude.
Huge == 100000 * ONE
Tan(x) ==
  LET s == Sin(x)
      c == Cos(x)
  IN  IF c = 0 THEN (IF s >= 0 THEN Huge ELSE -Huge) ELSE Div(s, c)

\* ------------------------------------------------------------------------
\* Vectors and 4x4 matrices (tuples of rows).
\* ------------------------------------------------------------------------
Idx4 == 1..4

Identity4 ==
  << <<ONE, 0, 0, 0>>, <<0, ONE, 0, 0>>, <<0, 0, ONE, 0>>, <<0, 0, 0, ONE>> >>

Zero4 ==
  << <<0, 0, 0, 0>>, <<0, 0, 0, 0>>, <<0, 0, 0, 0>>, <<0, 0, 0, 0>> >>

\* Matrix product a * b.
MatMul(a, b) ==
  [i \in Idx4 |-> [j \in Idx4 |->
     Mul(a[i][1], b[1][j]) + Mul(a[i][2], b[2][j])
   + Mul(a[i][3], b[3][j]) + Mul(a[i][4], b[4][j])]]

\* Matrix times homogeneous column vector.
MatVec(a, v) ==
  [i \in Idx4 |->
     Mul(a[i][1], v[1]) + Mul(a[i][2], v[2])
   + Mul(a[i][3], v[3]) + Mul(a[i][4], v[4])]

SquaredNorm(v) == Mul(v[1], v[1]) + Mul(v[2], v[2]) + Mul(v[3], v[3])

\* Eigen's normalized(): v / |v| (v itself when the norm is zero).
Normalized(v) ==
  LET n == SqrtFx(SquaredNorm(v))
  IN  IF n = 0 THEN v ELSE <<Div(v[1], n), Div(v[2], n), Div(v[3], n)>>

\* Near equality of two vectors of the same length.
VecNear(u, v) == \A i \in 1..Len(u) : Abs(u[i] - v[i]) <= Tolerance

\* ------------------------------------------------------------------------
\* Transform helpers.
\* ------------------------------------------------------------------------
\* ComputeTranslation: identity whose last column is offset.homogeneous().
ComputeTranslation(offset) ==
  << <<ONE, 0, 0, offset[1]>>,
     <<0, ONE, 0, offset[2]>>,
     <<0, 0, ONE, offset[3]>>,
     <<0, 0, 0, ONE>> >>

\* Eigen::AngleAxisf(angle, axis).matrix(): the Rodrigues formula.
AngleAxisMatrix(axis, angle) ==
  LET c == Cos(angle)
      s == Sin(angle)
      sx == Mul(s, axis[1])
      sy == Mul(s, axis[2])
      sz == Mul(s, axis[3])
      cx == Mul(ONE - c, axis[1])
      cy == Mul(ONE - c, axis[2])
      cz == Mul(ONE - c, axis[3])
      xy == Mul(cx, axis[2])
      xz == Mul(cx, axis[3])
      yz == Mul(cy, axis[3])
  IN  << <<Mul(cx, axis[1]) + c, xy - sz, xz + sy>>,
         <<xy + sz, Mul(cy, axis[2]) + c, yz - sx>>,
         <<xz - sy, yz + sx, Mul(cz, axis[3]) + c>> >>

\* ComputeRotation: the 3x3 rotation in the upper-left block of an identity.
ComputeRotation(axis, angle) ==
  LET rot3 == AngleAxisMatrix(axis, angle)
  IN  << <<rot3[1][1], rot3[1][2], rot3[1][3], 0>>,
         <<rot3[2][1], rot3[2][2], rot3[2][3], 0>>,
         <<rot3[3][1], rot3[3][2], rot3[3][3], 0>>,
         <<0, 0, 0, ONE>> >>

\* ComputeCotangent(angle) = tan(kHalfPi - angle).
ComputeCotangent(angle) == Tan(kHalfPi - angle)

\* ComputeProjectionMatrix(field_of_view, aspect_ratio, near, far).
\* A zero divisor gives an infinity in the code; it saturates here.
ComputeProjectionMatrix(field_of_view, aspect_ratio, near, far) ==
  LET y_scale == ComputeCotangent(Quot(field_of_view, 2))
      x_scale == IF aspect_ratio = 0 THEN Huge ELSE Div(y_scale, aspect_ratio)
      planes_distance == far - near
      z_scale == IF planes_distance = 0 THEN -Huge
                 ELSE -Div(near + far, planes_distance)
      homogeneous_scale == IF planes_distance = 0 THEN -Huge
                           ELSE Div(Mul(-2 * near, far), planes_distance)
  IN  << <<x_scale, 0, 0, 0>>,
         <<0, y_scale, 0, 0>>,
         <<0, 0, z_scale, homogeneous_scale>>,
         <<0, 0, -ONE, 0>> >>

\* Variant of ComputeProjectionMatrixGeneral that leaves entry (3,3) at the
\* identity's 1.
ComputeProjectionMatrixGeneralKeeps33(left, right, top, bottom, near, far) ==
  LET width == right - left
      height == top - bottom
      planes_distance == far - near
  IN  << <<IF width = 0 THEN Huge ELSE Div(2 * near, width), 0,
           IF width = 0 THEN Huge ELSE Div(right + left, width), 0>>,
         <<0, IF height = 0 THEN Huge ELSE Div(2 * near, height),
           IF height = 0 THEN Huge ELSE Div(top + bottom, height), 0>>,
         <<0, 0,
           IF planes_distance = 0 THEN -Huge
           ELSE -Div(far + near, planes_distance),
           IF planes_distance = 0 THEN -Huge
           ELSE Div(Mul(-2 * far, near), planes_distance)>>,
         <<0, 0, -ONE, ONE>> >>

\* ComputeProjectionMatrix(left, right, top, bottom, near, far), the general
\* form: an identity with eight entries overwritten.
ComputeProjectionMatrixGeneral(left, right, top, bottom, near, far) ==
  LET width == right - left
      height == top - bottom
      planes_distance == far - near
  IN  << <<IF width = 0 THEN Huge ELSE Div(2 * near, width), 0,
           IF width = 0 THEN Huge ELSE Div(right + left, width), 0>>,
         <<0, IF height = 0 THEN Huge ELSE Div(2 * near, height),
           IF height = 0 THEN Huge ELSE Div(top + bottom, height), 0>>,
         <<0, 0,
           IF planes_distance = 0 THEN -Huge
           ELSE -Div(far + near, planes_distance),
           IF planes_distance = 0 THEN -Huge
           ELSE Div(Mul(-2 * far, near), planes_distance)>>,
         <<0, 0, -ONE, 0>> >>

\* The arguments RenderScene gives to the transform helpers.
kCameraOffset == <<0, 0, -5 * ONE>>
kRotationAxis == <<0, ONE, 0>>

\* Variant of ModelMatrix with the factors exchanged: rotation * translation.
ModelMatrixReversed(angle) ==
  MatMul(ComputeRotation(Normalized(kRotationAxis), angle),
         ComputeTranslation(kCameraOffset))

\* model = translation * rotation, RenderScene.
ModelMatrix(angle) ==
  MatMul(ComputeTranslation(kCameraOffset),
         ComputeRotation(Normalized(kRotationAxis), angle))

\* angle = rotation_speed * glfwGetTime() * M_PI / 180.f, with the clock
\* read in ticks.
rotation_speed == 50
kDegreesPerHalfTurn == 180
ComputeAngle(elapsed_ticks) ==
  Quot(rotation_speed * elapsed_ticks * M_PI,
       kDegreesPerHalfTurn * TicksPerSecond)

\* ------------------------------------------------------------------------
\* Program constants.
\* ------------------------------------------------------------------------
kWindowWidth == 640
kWindowHeight == 480
GLFW_KEY_ESCAPE == 256
GLFW_KEY_SPACE == 32
GLFW_RELEASE == 0
GLFW_PRESS == 1
GLFW_REPEAT == 2
\* Number of indices drawn by glDrawElements in RenderScene.
kDrawCount == 6
\* const GLfloat field_of_view = 45.0f, and the near and far planes.
field_of_view == 45 * ONE
kNear == ONE \div 10
kFar == 10 * ONE

\* The vertices of main, one 8-tuple per column of the 8 x 4 matrix:
\* position (3), color (3), texel (2).
kVertices ==
  << <<0, 1, 0, 1, 0, 0, 0, 0>>,
     <<0, 0, 0, 0, 1, 0, 0, 1>>,
     <<1, 1, 0, 0, 0, 1, 1, 0>>,
     <<1, 0, 0, 1, 0, 0, 1, 1>> >>
kIndices == <<0, 1, 3, 0, 3, 2>>

\* Model constructor with indices.
NewModel(orientation, position, vertices, indices) ==
  [constructed |-> TRUE, orientation_ |-> orientation, position_ |-> position,
   vertices_ |-> vertices, indices_ |-> indices]

\* The storage of main's Model before the constructor has run.
NoModel ==
  [constructed |-> FALSE, orientation_ |-> <<0, 0, 0>>,
   position_ |-> <<0, 0, 0>>, vertices_ |-> <<>>, indices_ |-> <<>>]

\* Model::SetOrientation.
SetOrientation(m, orientation) == [m EXCEPT !.orientation_ = orientation]

\* Variant of KeyCallback with || in place of &&.
KeyCallbackEitherTest(flag, key, action) ==
  IF key = GLFW_KEY_ESCAPE \/ action = GLFW_PRESS THEN TRUE ELSE flag

\* KeyCallback: the should-close flag of the window after the callback.
KeyCallback(flag, key, action) ==
  IF key = GLFW_KEY_ESCAPE /\ action = GLFW_PRESS THEN TRUE ELSE flag

\* wvu::ShaderProgram: the program id after the two loads and Create.  The
\* id stays 0 unless both shaders were loaded and the program linked.
ShaderProgramCreate(vs_loaded, fs_loaded, linked) ==
  IF vs_loaded /\ fs_loaded /\ linked THEN 1 ELSE 0

\* ------------------------------------------------------------------------
\* Events delivered by glfwPollEvents.
\* ------------------------------------------------------------------------
MaxEvents == 2
Keys == {GLFW_KEY_ESCAPE, GLFW_KEY_SPACE}
Actions == {GLFW_RELEASE, GLFW_PRESS, GLFW_REPEAT}
Events ==
  {[type |-> "close", key |-> 0, action |-> 0]}
  \cup {[type |-> "key", key |-> k, action |-> a] : k \in Keys, a \in Actions}
EventQueues == UNION {[1..n -> Events] : n \in 0..MaxEvents}

\* The should-close flag after one event: GLFW sets it on a close request
\* and calls the key callback, when installed, on a key event.
HandleEvent(flag, ev, callback_set) ==
  IF ev.type = "close" THEN TRUE
  ELSE IF callback_set THEN KeyCallback(flag, ev.key, ev.action)
  ELSE flag

RECURSIVE HandleEvents(_, _, _)
HandleEvents(flag, queue, callback_set) ==
  IF queue = <<>> THEN flag
  ELSE HandleEvents(HandleEvent(flag, Head(queue), callback_set),
                    Tail(queue), callback_set)

\* ------------------------------------------------------------------------
\* State.
\* ------------------------------------------------------------------------
VARIABLES
  pc,                \* position of main
  exit_code,         \* value returned by main (when pc = "returned")
  now,               \* glfwGetTime(), in ticks
  glfwInitialized,   \* glfwInit succeeded and glfwTerminate has not run
  window,            \* "none", "open" or "destroyed"
  shouldClose,       \* the should-close flag of the window
  keyCallbackSet,    \* glfwSetKeyCallback(window, KeyCallback) has run
  glewOk,            \* glewInit() == GLEW_OK
  shaderFiles,       \* outcome of the two shader loads
  shader_program_id, \* shader_program.shader_program_id()
  model,             \* the Model entity of main
  buffers,           \* the vertex array, vertex buffer and element buffer
  texture,           \* texture_id and whether the image load failed
  projection_matrix, \* main's projection_matrix
  mathArgs,          \* arguments of the last calls of the transform helpers
  angle,             \* main's angle
  elapsed,           \* the clock value read for the current frame
  uniforms,          \* matrices last given to glUniformMatrix4fv
  frame,             \* back buffer, presentation and frame counters
  iterTrace,         \* steps taken in the current loop iteration
  prevFrame,         \* clock value and angle of the previous frame
  failedStep,        \* the setup step that failed, or "none"
  probe              \* arguments and results of helpers applied on their own

vars ==
  <<pc, exit_code, now, glfwInitialized, window, shouldClose, keyCallbackSet,
    glewOk, shaderFiles, shader_program_id, model, buffers, texture,
    projection_matrix, mathArgs, angle, elapsed, uniforms, frame, iterTrace,
    prevFrame, failedStep, probe>>

\* Everything but pc and exit_code.
dataVars ==
  <<now, glfwInitialized, window, shouldClose, keyCallbackSet,
    glewOk, shaderFiles, shader_program_id, model, buffers, texture,
    projection_matrix, mathArgs, angle, elapsed, uniforms, frame, iterTrace,
    prevFrame, failedStep>>

LoopPcs == {"loop_test", "compute_angle", "render_scene", "swap_buffers",
            "poll_events"}

MainInit ==
  /\ pc = "glfw_init"
  /\ exit_code = 0
  /\ now = 0
  /\ glfwInitialized = FALSE
  /\ window = "none"
  /\ shouldClose = FALSE
  /\ keyCallbackSet = FALSE
  /\ glewOk = FALSE
  /\ shaderFiles = [vs |-> FALSE, fs |-> FALSE]
  /\ shader_program_id = 0
  /\ model = NoModel
  /\ buffers = [vao |-> 0, vbo |-> 0, ebo |-> 0, vboData |-> <<>>,
                eboData |-> <<>>]
  /\ texture = [id |-> 0, loadFailed |-> FALSE]
  /\ projection_matrix = Zero4
  /\ mathArgs = [projCalls |-> 0, fov |-> 0, aspect |-> 0, near |-> 0,
                 far |-> 0, rotCalled |-> FALSE, axis |-> <<0, 0, 0>>,
                 rotAngle |-> 0]
  /\ angle = 0
  /\ elapsed = 0
  /\ uniforms = [set |-> FALSE, model |-> Zero4, view |-> Zero4,
                 projection |-> Zero4]
  /\ frame = [backBuffer |-> "empty", drawn |-> 0, presented |-> 0,
              presentedUndrawn |-> FALSE, afterClose |-> 0, drawCount |-> 0,
              loopExited |-> FALSE]
  /\ iterTrace = <<>>
  /\ prevFrame = [valid |-> FALSE, elapsed |-> 0, angle |-> 0]
  /\ failedStep = "none"

\* No helper is applied on its own while main runs.
NoProbe ==
  [right |-> 0, top |-> 0, near |-> 0, far |-> 0,
   generalDone |-> FALSE, general |-> Zero4,
   fovDone |-> FALSE, fov |-> 0, aspect |-> 0, fovForm |-> Zero4,
   flag |-> FALSE, key |-> 0, action |-> 0,
   called |-> FALSE, flagAfter |-> FALSE]

Init ==
  /\ MainInit
  /\ probe = NoProbe

\* ------------------------------------------------------------------------
\* Setup: main up to the render loop.
\* ------------------------------------------------------------------------
Min(a, b) == IF a < b THEN a ELSE b

\* return code; from main.
Return(code) ==
  /\ pc' = "returned"
  /\ exit_code' = code

\* if (!glfwInit()) return -1;
GlfwInit ==
  /\ pc = "glfw_init"
  /\ \E ok \in BOOLEAN :
       IF ok
       THEN /\ glfwInitialized' = TRUE
            /\ pc' = "create_window"
            /\ UNCHANGED <<exit_code, failedStep>>
       ELSE /\ Return(-1)
            /\ failedStep' = "glfwInit"
            /\ UNCHANGED glfwInitialized
  /\ UNCHANGED <<now, window, shouldClose, keyCallbackSet, glewOk,
                 shaderFiles, shader_program_id, model, buffers, texture,
                 projection_matrix, mathArgs, angle, elapsed, uniforms, frame,
                 iterTrace, prevFrame>>
  /\ UNCHANGED probe

\* glfwCreateWindow; a null window ends main with glfwTerminate and -1.
CreateWindow ==
  /\ pc = "create_window"
  /\ \E ok \in BOOLEAN :
       IF ok
       THEN /\ window' = "open"
            /\ pc' = "make_context"
            /\ UNCHANGED <<exit_code, failedStep, glfwInitialized>>
       ELSE /\ glfwInitialized' = FALSE
            /\ Return(-1)
            /\ failedStep' = "window"
            /\ UNCHANGED window
  /\ UNCHANGED <<now, shouldClose, keyCallbackSet, glewOk,
                 shaderFiles, shader_program_id, model, buffers, texture,
                 projection_matrix, mathArgs, angle, elapsed, uniforms, frame,
                 iterTrace, prevFrame>>
  /\ UNCHANGED probe

\* glfwMakeContextCurrent, glfwSwapInterval, glfwSetKeyCallback.
MakeContextCurrent ==
  /\ pc = "make_context"
  /\ keyCallbackSet' = TRUE
  /\ pc' = "glew_init"
  /\ UNCHANGED <<exit_code, now, glfwInitialized, window, shouldClose, glewOk,
                 shaderFiles, shader_program_id, model, buffers, texture,
                 projection_matrix, mathArgs, angle, elapsed, uniforms, frame,
                 iterTrace, prevFrame, failedStep>>
  /\ UNCHANGED probe

\* if (glewInit() != GLEW_OK) { glfwTerminate(); return -1; }
GlewInit ==
  /\ pc = "glew_init"
  /\ \E ok \in BOOLEAN :
       /\ glewOk' = ok
       /\ IF ok
          THEN /\ pc' = "configure_viewport"
               /\ UNCHANGED <<exit_code, failedStep, glfwInitialized, window>>
          ELSE /\ glfwInitialized' = FALSE
               /\ window' = "destroyed"
               /\ Return(-1)
               /\ failedStep' = "glew"
  /\ UNCHANGED <<now, shouldClose, keyCallbackSet,
                 shaderFiles, shader_program_id, model, buffers, texture,
                 projection_matrix, mathArgs, angle, elapsed, uniforms, frame,
                 iterTrace, prevFrame>>
  /\ UNCHANGED probe

\* ConfigureViewPort(window).
ConfigureViewPort ==
  /\ pc = "configure_viewport"
  /\ pc' = "load_shaders"
  /\ UNCHANGED <<exit_code, dataVars>>
  /\ UNCHANGED probe

\* LoadVertexShaderFromFile, LoadFragmentShaderFromFile: results not read.
LoadShaders ==
  /\ pc = "load_shaders"
  /\ \E vs \in BOOLEAN, fs \in BOOLEAN :
       shaderFiles' = [vs |-> vs, fs |-> fs]
  /\ pc' = "create_shader"
  /\ UNCHANGED <<exit_code, now, glfwInitialized, window, shouldClose,
                 keyCallbackSet, glewOk, shader_program_id, model, buffers,
                 texture, projection_matrix, mathArgs, angle, elapsed,
                 uniforms, frame, iterTrace, prevFrame, failedStep>>
  /\ UNCHANGED probe

\* shader_program.Create(&error_info_log): a failure is only printed.
CreateShader ==
  /\ pc = "create_shader"
  /\ \E linked \in BOOLEAN :
       LET id == ShaderProgramCreate(shaderFiles.vs, shaderFiles.fs, linked)
       IN  /\ shader_program_id' = id
           /\ failedStep' = IF id = 0 THEN "shader" ELSE failedStep
  /\ pc' = "check_shader"
  /\ UNCHANGED <<exit_code, now, glfwInitialized, window, shouldClose,
                 keyCallbackSet, glewOk, shaderFiles, model, buffers,
                 texture, projection_matrix, mathArgs, angle, elapsed,
                 uniforms, frame, iterTrace, prevFrame>>
  /\ UNCHANGED probe

\* Variant of CheckShaderProgram without the test of the program id.
CheckShaderProgramIgnored ==
  /\ pc = "check_shader"
  /\ pc' = "build_model"
  /\ UNCHANGED <<exit_code, dataVars>>
  /\ UNCHANGED probe

\* if (!shader_program.shader_program_id()) return -1;
CheckShaderProgram ==
  /\ pc = "check_shader"
  /\ IF shader_program_id = 0
     THEN Return(-1)
     ELSE pc' = "build_model" /\ UNCHANGED exit_code
  /\ UNCHANGED dataVars
  /\ UNCHANGED probe

\* Variant of BuildModel whose last index names a fifth vertex.
BuildModelIndexPastEnd ==
  /\ pc = "build_model"
  /\ model' = NewModel(<<0, 0, 0>>, <<0, 0, 0>>, kVertices,
                       <<0, 1, 3, 0, 3, 4>>)
  /\ pc' = "set_vao"
  /\ UNCHANGED <<exit_code, now, glfwInitialized, window, shouldClose,
                 keyCallbackSet, glewOk, shaderFiles, shader_program_id,
                 buffers, texture, projection_matrix, mathArgs, angle,
                 elapsed, uniforms, frame, iterTrace, prevFrame, failedStep>>
  /\ UNCHANGED probe

\* The vertices, the indices and the Model constructor.
BuildModel ==
  /\ pc = "build_model"
  /\ model' = NewModel(<<0, 0, 0>>, <<0, 0, 0>>, kVertices, kIndices)
  /\ pc' = "set_vao"
  /\ UNCHANGED <<exit_code, now, glfwInitialized, window, shouldClose,
                 keyCallbackSet, glewOk, shaderFiles, shader_program_id,
                 buffers, texture, projection_matrix, mathArgs, angle,
                 elapsed, uniforms, frame, iterTrace, prevFrame, failedStep>>
  /\ UNCHANGED probe

\* SetVertexArrayObject, with SetVertexBufferObject and
\* SetElementBufferObject: the vertices and indices are copied to the GPU.
SetVertexArrayObject ==
  /\ pc = "set_vao"
  /\ buffers' = [vao |-> 1, vbo |-> 1, ebo |-> 2,
                 vboData |-> model.vertices_, eboData |-> model.indices_]
  /\ pc' = "load_texture"
  /\ UNCHANGED <<exit_code, now, glfwInitialized, window, shouldClose,
                 keyCallbackSet, glewOk, shaderFiles, shader_program_id,
                 model, texture, projection_matrix, mathArgs, angle,
                 elapsed, uniforms, frame, iterTrace, prevFrame, failedStep>>
  /\ UNCHANGED probe

\* What image.load(texture_filepath) can do: load the image, throw (no
\* handler anywhere in main, so std::terminate ends the process), or leave
\* an image that is not usable as a texture.
TextureOutcomes == {"loaded", "throws", "unusable"}

\* texture_id = LoadTexture(FLAGS_texture_filepath): LoadTexture has one
\* exit, return texture_id, and main reads nothing but the id.
LoadTexture ==
  /\ pc = "load_texture"
  /\ \E outcome \in TextureOutcomes :
       /\ texture' = [id |-> IF outcome = "throws" THEN 0 ELSE 1,
                      loadFailed |-> (outcome # "loaded")]
       /\ pc' = IF outcome = "throws" THEN "terminate_called"
                ELSE "create_projection"
  /\ UNCHANGED <<exit_code, now, glfwInitialized, window, shouldClose,
                 keyCallbackSet, glewOk, shaderFiles, shader_program_id,
                 model, buffers, projection_matrix, mathArgs, angle,
                 elapsed, uniforms, frame, iterTrace, prevFrame, failedStep>>
  /\ UNCHANGED probe

\* const GLfloat aspect_ratio = kWindowWidth / kWindowHeight: a division
\* of two ints, converted afterwards.
AspectRatio == Quot(kWindowWidth, kWindowHeight) * ONE

\* The projection matrix and GLfloat angle = 0.0f.
CreateProjection ==
  /\ pc = "create_projection"
  /\ projection_matrix' =
       ComputeProjectionMatrix(field_of_view, AspectRatio, kNear, kFar)
  /\ mathArgs' = [mathArgs EXCEPT
                    !.projCalls = Min(mathArgs.projCalls + 1, MaxFrames),
                    !.fov = field_of_view, !.aspect = AspectRatio,
                    !.near = kNear, !.far = kFar]
  /\ angle' = 0
  /\ pc' = "loop_test"
  /\ UNCHANGED <<exit_code, now, glfwInitialized, window, shouldClose,
                 keyCallbackSet, glewOk, shaderFiles, shader_program_id,
                 model, buffers, texture, elapsed, uniforms, frame,
                 iterTrace, prevFrame, failedStep>>
  /\ UNCHANGED probe

\* ------------------------------------------------------------------------
\* The render loop.
\* ------------------------------------------------------------------------
\* Variables no step of the loop writes, bar the Model entity.
setupVars ==
  <<exit_code, now, glfwInitialized, window, keyCallbackSet, glewOk,
    shaderFiles, shader_program_id, buffers, texture, projection_matrix,
    failedStep>>

\* Variant of LoopTest with the condition negated.
LoopTestInverted ==
  /\ pc = "loop_test"
  /\ IF ~shouldClose
     THEN /\ pc' = "cleanup"
          /\ frame' = [frame EXCEPT !.loopExited = TRUE]
     ELSE /\ pc' = "compute_angle"
          /\ UNCHANGED frame
  /\ iterTrace' = <<"test">>
  /\ UNCHANGED <<setupVars, model, shouldClose, mathArgs, angle, elapsed,
                 uniforms, prevFrame>>
  /\ UNCHANGED probe

\* Variant of LoopTest that never leaves the loop.
LoopTestNeverExits ==
  /\ pc = "loop_test"
  /\ pc' = "compute_angle"
  /\ iterTrace' = <<"test">>
  /\ UNCHANGED <<setupVars, model, shouldClose, mathArgs, angle, elapsed,
                 uniforms, prevFrame, frame>>
  /\ UNCHANGED probe

\* while (!glfwWindowShouldClose(window))
LoopTest ==
  /\ pc = "loop_test"
  /\ IF shouldClose
     THEN /\ pc' = "cleanup"
          /\ frame' = [frame EXCEPT !.loopExited = TRUE]
     ELSE /\ pc' = "compute_angle"
          /\ UNCHANGED frame
  /\ iterTrace' = <<"test">>
  /\ UNCHANGED <<setupVars, model, shouldClose, mathArgs, angle, elapsed,
                 uniforms, prevFrame>>
  /\ UNCHANGED probe

\* Variant of ComputeAngleStep that advances the previous angle.
ComputeAngleStepAccumulating ==
  /\ pc = "compute_angle"
  /\ elapsed' = now
  /\ angle' = angle + ComputeAngle(now)
  /\ prevFrame' = IF frame.drawn > 0
                  THEN [valid |-> TRUE, elapsed |-> elapsed, angle |-> angle]
                  ELSE prevFrame
  /\ iterTrace' = Append(iterTrace, "angle")
  /\ pc' = "render_scene"
  /\ UNCHANGED <<setupVars, model, shouldClose, mathArgs, uniforms, frame>>
  /\ UNCHANGED probe

\* Variant of ComputeAngleStep that goes on to glfwSwapBuffers.
ComputeAngleStepPresentFirst ==
  /\ pc = "compute_angle"
  /\ elapsed' = now
  /\ angle' = ComputeAngle(now)
  /\ prevFrame' = IF frame.drawn > 0
                  THEN [valid |-> TRUE, elapsed |-> elapsed, angle |-> angle]
                  ELSE prevFrame
  /\ iterTrace' = Append(iterTrace, "angle")
  /\ pc' = "swap_buffers"
  /\ UNCHANGED <<setupVars, model, shouldClose, mathArgs, uniforms, frame>>
  /\ UNCHANGED probe

\* angle = rotation_speed * static_cast<GLfloat>(glfwGetTime()) * M_PI / 180.f
ComputeAngleStep ==
  /\ pc = "compute_angle"
  /\ elapsed' = now
  /\ angle' = ComputeAngle(now)
  /\ prevFrame' = IF frame.drawn > 0
                  THEN [valid |-> TRUE, elapsed |-> elapsed, angle |-> angle]
                  ELSE prevFrame
  /\ iterTrace' = Append(iterTrace, "angle")
  /\ pc' = "render_scene"
  /\ UNCHANGED <<setupVars, model, shouldClose, mathArgs, uniforms, frame>>
  /\ UNCHANGED probe

\* The effects of RenderScene common to its variants.
RenderSceneDraw ==
  /\ pc = "render_scene"
  /\ mathArgs' = [mathArgs EXCEPT !.rotCalled = TRUE,
                    !.axis = Normalized(kRotationAxis), !.rotAngle = angle]
  /\ frame' = [frame EXCEPT
                 !.backBuffer = "drawn",
                 !.drawn = Min(frame.drawn + 1, MaxFrames),
                 !.drawCount = kDrawCount,
                 !.afterClose = IF shouldClose
                                THEN Min(frame.afterClose + 1, MaxFrames)
                                ELSE frame.afterClose]
  /\ iterTrace' = Append(iterTrace, "render")
  /\ pc' = "swap_buffers"
  /\ UNCHANGED <<exit_code, now, glfwInitialized, window, keyCallbackSet,
                 glewOk, shaderFiles, shader_program_id, buffers, texture,
                 failedStep, shouldClose, angle, elapsed, prevFrame>>
  /\ UNCHANGED probe

\* Variant of RenderSceneStep that stores the rotation on the entity.
RenderSceneStepPersistsAngle ==
  /\ RenderSceneDraw
  /\ uniforms' = [set |-> TRUE, model |-> ModelMatrix(angle),
                  view |-> Identity4, projection |-> projection_matrix]
  /\ model' = SetOrientation(model, <<0, angle, 0>>)
  /\ UNCHANGED projection_matrix

\* Variant of RenderSceneStep that builds its own projection matrix.
RenderSceneStepOwnProjection ==
  /\ RenderSceneDraw
  /\ uniforms' = [set |-> TRUE, model |-> ModelMatrix(angle),
                  view |-> Identity4, projection |-> Identity4]
  /\ UNCHANGED <<model, projection_matrix>>

\* RenderScene(shader_program, vertex_array_object_id, projection_matrix,
\*             angle, texture_id, window)
RenderSceneStep ==
  /\ RenderSceneDraw
  /\ uniforms' = [set |-> TRUE, model |-> ModelMatrix(angle),
                  view |-> Identity4, projection |-> projection_matrix]
  /\ UNCHANGED <<model, projection_matrix>>

\* glfwSwapBuffers(window)
SwapBuffers ==
  /\ pc = "swap_buffers"
  /\ frame' = [frame EXCEPT
                 !.backBuffer = "empty",
                 !.presented = Min(frame.presented + 1, MaxFrames),
                 !.presentedUndrawn =
                    frame.presentedUndrawn \/ frame.backBuffer # "drawn"]
  /\ iterTrace' = Append(iterTrace, "swap")
  /\ pc' = "poll_events"
  /\ UNCHANGED <<setupVars, model, shouldClose, mathArgs, angle, elapsed,
                 uniforms, prevFrame>>
  /\ UNCHANGED probe

\* glfwPollEvents(): the pending events are handled in order.
PollEvents ==
  /\ pc = "poll_events"
  /\ \E queue \in EventQueues :
       shouldClose' = HandleEvents(shouldClose, queue, keyCallbackSet)
  /\ iterTrace' = Append(iterTrace, "poll")
  /\ pc' = "loop_test"
  /\ UNCHANGED <<setupVars, model, mathArgs, angle, elapsed, uniforms, frame,
                 prevFrame>>
  /\ UNCHANGED probe

\* glDeleteVertexArrays, glDeleteBuffers, glfwDestroyWindow, glfwTerminate,
\* return 0.
Cleanup ==
  /\ pc = "cleanup"
  /\ buffers' = [buffers EXCEPT !.vao = 0, !.vbo = 0, !.vboData = <<>>]
  /\ window' = "destroyed"
  /\ glfwInitialized' = FALSE
  /\ Return(0)
  /\ UNCHANGED <<now, shouldClose, keyCallbackSet, glewOk, shaderFiles,
                 shader_program_id, model, texture, projection_matrix,
                 mathArgs, angle, elapsed, uniforms, frame, iterTrace,
                 prevFrame, failedStep>>
  /\ UNCHANGED probe

\* The clock of glfwGetTime() advances while the process runs.
Tick ==
  /\ glfwInitialized
  /\ pc \notin {"returned", "terminate_called"}
  /\ now < MaxTime
  /\ now' = now + 1
  /\ UNCHANGED <<pc, exit_code, glfwInitialized, window, shouldClose,
                 keyCallbackSet, glewOk, shaderFiles, shader_program_id,
                 model, buffers, texture, projection_matrix, mathArgs, angle,
                 elapsed, uniforms, frame, iterTrace, prevFrame, failedStep>>
  /\ UNCHANGED probe

\* The steps of main.
MainStep ==
  \/ GlfwInit
  \/ CreateWindow
  \/ MakeContextCurrent
  \/ GlewInit
  \/ ConfigureViewPort
  \/ LoadShaders
  \/ CreateShader
  \/ CheckShaderProgram
  \/ BuildModel
  \/ SetVertexArrayObject
  \/ LoadTexture
  \/ CreateProjection
  \/ LoopTest
  \/ ComputeAngleStep
  \/ RenderSceneStep
  \/ SwapBuffers
  \/ PollEvents
  \/ Cleanup

Next == MainStep \/ Tick

Spec == Init /\ [][Next]_vars

\* The loop test and the cleanup calls return: main does not stop at
\* either of them.  Nothing is assumed of the other steps.
FairSpec == Spec /\ WF_vars(LoopTest) /\ WF_vars(Cleanup)

\* ------------------------------------------------------------------------
\* Properties.
\* ------------------------------------------------------------------------
\* The four setup steps main tests have all succeeded.
SetupSucceeded ==
  /\ glfwInitialized
  /\ window = "open"
  /\ glewOk
  /\ shader_program_id # 0

Running == pc \in LoopPcs
Terminated == frame.loopExited

\* C1: the render loop is a two-state machine.  Running is entered only
\* from the end of a successful setup; the loop is left only at the loop
\* test, exactly when the should-close flag is set there; once the loop is
\* left no frame is drawn or presented, no event is polled and the loop is
\* never entered again.
C1_TwoStateLoop ==
  /\ [](Running => SetupSucceeded /\ ~Terminated)
  /\ [](Terminated => pc \in {"cleanup", "returned"})
  /\ [][ /\ (~Running /\ Running') =>
              (pc = "create_projection" /\ pc' = "loop_test")
         /\ (Running /\ ~Running') =>
              (pc = "loop_test" /\ shouldClose /\ pc' = "cleanup"
               /\ Terminated')
         /\ (pc = "loop_test" /\ shouldClose /\ pc' # pc) => pc' = "cleanup"
         /\ (pc = "loop_test" /\ ~shouldClose) => Running'
         /\ Terminated =>
              (Terminated' /\ frame' = frame /\ uniforms' = uniforms
               /\ shouldClose' = shouldClose /\ iterTrace' = iterTrace)
       ]_vars

C1_Witness ==
  /\ pc = "returned"
  /\ exit_code = 0
  /\ Terminated
  /\ frame.presented >= 2

\* The steps of one iteration, in the order of the source.
IterationOrder == <<"test", "angle", "render", "swap", "poll">>

IsPrefix(p, q) ==
  /\ Len(p) <= Len(q)
  /\ \A i \in 1..Len(p) : p[i] = q[i]

\* C2: in every iteration the steps are taken in the order test, angle,
\* RenderScene, glfwSwapBuffers, glfwPollEvents, none skipped or repeated,
\* and every frame presented has been drawn first.
C2_IterationOrder ==
  /\ IsPrefix(iterTrace, IterationOrder)
  /\ pc = "compute_angle" => iterTrace = <<"test">>
  /\ pc = "render_scene" => iterTrace = <<"test", "angle">>
  /\ pc = "swap_buffers" => iterTrace = <<"test", "angle", "render">>
  /\ pc = "poll_events" => iterTrace = <<"test", "angle", "render", "swap">>
  /\ (pc = "loop_test" /\ iterTrace # <<>>) => iterTrace = IterationOrder
  /\ pc = "swap_buffers" => frame.backBuffer = "drawn"
  /\ ~frame.presentedUndrawn
  /\ frame.presented <= frame.drawn

C2_Witness ==
  /\ pc = "loop_test"
  /\ iterTrace = IterationOrder
  /\ frame.presented >= 2

\* C3: after a failed setup step (glfwInit, glfwCreateWindow, glewInit, or
\* a shader program id of 0 after Create) main returns -1 without entering
\* the loop: nothing is drawn, and the only position other than the return
\* is the test of the program id.
C3_SetupFailureAborts ==
  failedStep # "none" =>
    /\ ~Running
    /\ ~Terminated
    /\ frame.drawn = 0
    /\ ~uniforms.set
    /\ \/ pc = "returned" /\ exit_code = -1
       \/ pc = "check_shader" /\ failedStep = "shader"

C3_Witness ==
  /\ failedStep = "shader"
  /\ pc = "returned"
  /\ exit_code = -1

\* C4: a texture or shader file that cannot be loaded is reported to main,
\* which returns before the loop: the loop never runs with a failed load,
\* and the process does not end in an uncaught exception instead.
C4_LoadFailureAborts ==
  /\ texture.loadFailed => (~Running /\ pc # "terminate_called")
  /\ (pc \notin {"glfw_init", "create_window", "make_context", "glew_init",
                 "configure_viewport", "load_shaders"}
      /\ ~(shaderFiles.vs /\ shaderFiles.fs)) => ~Running

\* C5: once the should-close flag is set while the loop runs, main leaves
\* the loop and completes the cleanup, and no further frame is drawn
\* while the flag is set.
C5_CloseTerminates ==
  /\ (Running /\ shouldClose) ~>
       (pc = "returned" /\ exit_code = 0 /\ window = "destroyed")
  /\ [](frame.afterClose = 0)
  /\ []((Running /\ shouldClose) => pc = "loop_test")

C5_Witness ==
  /\ pc = "returned"
  /\ exit_code = 0
  /\ shouldClose
  /\ window = "destroyed"

\* C6: the angle of a frame is 50 * elapsed seconds * pi / 180, whatever
\* the frames before it: it depends on the clock value read for the frame
\* only, and two consecutive frames reading the same clock value have the
\* same angle.  At one second the angle is 0.8727.
C6_AnglePureInElapsed ==
  /\ Abs(angle * 180 * TicksPerSecond - 50 * elapsed * M_PI)
       < 180 * TicksPerSecond
  /\ (prevFrame.valid /\ prevFrame.elapsed = elapsed) =>
       prevFrame.angle = angle
  /\ prevFrame.valid =>
       Abs(prevFrame.angle * 180 * TicksPerSecond
           - 50 * prevFrame.elapsed * M_PI) < 180 * TicksPerSecond
  /\ (frame.drawn > 0 /\ elapsed = TicksPerSecond) =>
       Abs(angle - 8727) <= Tolerance

C6_Witness ==
  /\ pc = "render_scene"
  /\ frame.drawn >= 2
  /\ prevFrame.valid
  /\ prevFrame.elapsed = elapsed
  /\ elapsed = TicksPerSecond

\* C7: the model matrix applies the rotation first and the translation
\* second: it sends the origin to the offset (0,0,-5) at every angle, and
\* at the angle pi/2 it sends (1,0,0,1) to (0,0,-6,1), not to (-5,0,-1,1),
\* the image under the reversed product.
C7_RotateThenTranslate ==
  uniforms.set =>
    /\ VecNear(MatVec(uniforms.model, <<0, 0, 0, ONE>>),
               <<0, 0, -5 * ONE, ONE>>)
    /\ Abs(mathArgs.rotAngle - kHalfPi) <= 1 =>
         /\ VecNear(MatVec(uniforms.model, <<ONE, 0, 0, ONE>>),
                    <<0, 0, -6 * ONE, ONE>>)
         /\ ~VecNear(MatVec(uniforms.model, <<ONE, 0, 0, ONE>>),
                     <<-5 * ONE, 0, -ONE, ONE>>)

C7_Witness ==
  /\ uniforms.set
  /\ pc = "swap_buffers"
  /\ Abs(mathArgs.rotAngle - kHalfPi) <= 1

\* C8: the Model entity keeps the orientation, position, vertices and
\* indices given to its constructor: no step of the loop changes it.
C8_ModelUnchanged ==
  /\ [](model.constructed =>
          /\ model.orientation_ = <<0, 0, 0>>
          /\ model.position_ = <<0, 0, 0>>
          /\ model.vertices_ = kVertices
          /\ model.indices_ = kIndices)
  /\ [][Running => model' = model]_vars

C8_Witness ==
  /\ model.constructed
  /\ frame.drawn >= 2
  /\ angle > 0
  /\ pc = "poll_events"

\* C9: ComputeProjectionMatrix is called once, before the loop; every
\* frame uploads main's projection_matrix unchanged and the identity as
\* view; between two frames only the model matrix may differ.
C9_ProjectionOnce ==
  /\ [](mathArgs.projCalls <= 1)
  /\ [](Running => mathArgs.projCalls = 1)
  /\ [](uniforms.set =>
          /\ uniforms.projection = projection_matrix
          /\ uniforms.view = Identity4)
  /\ [][Running => projection_matrix' = projection_matrix]_vars
  /\ [][uniforms.set =>
          /\ uniforms'.projection = uniforms.projection
          /\ uniforms'.view = uniforms.view]_vars

C9_Witness ==
  /\ uniforms.set
  /\ frame.drawn >= 2
  /\ uniforms.model # ModelMatrix(0)
  /\ uniforms.projection = projection_matrix

\* C10: no transform helper is called with degenerate arguments: the axis
\* of ComputeRotation is not zero, and ComputeProjectionMatrix is called
\* with a field of view in radians, strictly between 0 and pi, a non-zero
\* aspect ratio, near > 0 and far # near.
C10_NoDegenerateInputs ==
  /\ mathArgs.rotCalled => SquaredNorm(mathArgs.axis) > 0
  /\ mathArgs.projCalls > 0 =>
       /\ mathArgs.fov > 0
       /\ mathArgs.fov < M_PI
       /\ mathArgs.aspect # 0
       /\ mathArgs.near > 0
       /\ mathArgs.far # mathArgs.near

\* ------------------------------------------------------------------------
\* The helpers applied on their own, to arguments main never gives them.
\* ------------------------------------------------------------------------
\* Frustum extents are multiples of one half, up to MaxExtent halves.
MaxExtent == 3
Extents == {k * (ONE \div 2) : k \in 1..MaxExtent}
NearValues == {ONE \div 2, ONE}
PlaneDistances == {ONE, 4 * ONE}

\* A symmetric frustum (left = -right, bottom = -top) and a key event.
ProbeInputs ==
  {[NoProbe EXCEPT !.right = r, !.top = t, !.near = n, !.far = n + d,
                   !.flag = f, !.key = k, !.action = a] :
     r \in Extents, t \in Extents, n \in NearValues, d \in PlaneDistances,
     f \in BOOLEAN, k \in Keys, a \in Actions}

\* The half angle in lo..hi whose cotangent is nearest to target; the
\* cotangent is above target at lo and not above it at hi.
RECURSIVE HalfAngleOfCotangent(_, _, _)
HalfAngleOfCotangent(lo, hi, target) ==
  IF hi - lo <= 1
  THEN IF Abs(ComputeCotangent(lo) - target)
            < Abs(ComputeCotangent(hi) - target) THEN lo ELSE hi
  ELSE LET mid == (lo + hi) \div 2
       IN  IF ComputeCotangent(mid) > target
           THEN HalfAngleOfCotangent(mid, hi, target)
           ELSE HalfAngleOfCotangent(lo, mid, target)

\* The field of view and aspect ratio of a symmetric frustum:
\* cot(field_of_view / 2) = near / top and aspect_ratio = right / top.
FovOfFrustum(near, top) ==
  2 * HalfAngleOfCotangent(1, kHalfPi, Div(near, top))
AspectOfFrustum(right, top) == Div(right, top)

ProbeInit ==
  /\ MainInit
  /\ probe \in ProbeInputs

\* The general form applied to the frustum.
ProbeGeneral ==
  /\ ~probe.generalDone
  /\ probe' = [probe EXCEPT
                 !.generalDone = TRUE,
                 !.general = ComputeProjectionMatrixGeneral(
                               -probe.right, probe.right, probe.top,
                               -probe.top, probe.near, probe.far)]
  /\ UNCHANGED <<pc, exit_code, dataVars>>

\* The field-of-view form applied to the same frustum.
ProbeFov ==
  /\ ~probe.fovDone
  /\ LET fov == FovOfFrustum(probe.near, probe.top)
         aspect == AspectOfFrustum(probe.right, probe.top)
     IN  probe' = [probe EXCEPT
                     !.fovDone = TRUE, !.fov = fov, !.aspect = aspect,
                     !.fovForm = ComputeProjectionMatrix(
                                   fov, aspect, probe.near, probe.far)]
  /\ UNCHANGED <<pc, exit_code, dataVars>>

\* KeyCallback called by GLFW with one key event.
ProbeKeyCallback ==
  /\ ~probe.called
  /\ probe' = [probe EXCEPT
                 !.called = TRUE,
                 !.flagAfter = KeyCallback(probe.flag, probe.key,
                                           probe.action)]
  /\ UNCHANGED <<pc, exit_code, dataVars>>

ProbeNext == ProbeGeneral \/ ProbeFov \/ ProbeKeyCallback

ProbeSpec == ProbeInit /\ [][ProbeNext]_vars

\* C11: on a symmetric frustum the general form and the field-of-view form
\* of ComputeProjectionMatrix give the same matrix, entry by entry within
\* the tolerance; in both, entries (0,2) and (1,2) are 0, entry (3,2) is -1
\* and entry (3,3) is 0.
C11_FormsAgree ==
  (probe.generalDone /\ probe.fovDone) =>
    /\ \A i \in Idx4, j \in Idx4 :
         Abs(probe.general[i][j] - probe.fovForm[i][j]) <= Tolerance
    /\ probe.general[1][3] = 0 /\ probe.fovForm[1][3] = 0
    /\ probe.general[2][3] = 0 /\ probe.fovForm[2][3] = 0
    /\ probe.general[4][3] = -ONE /\ probe.fovForm[4][3] = -ONE
    /\ probe.general[4][4] = 0 /\ probe.fovForm[4][4] = 0

C11_Witness ==
  /\ probe.generalDone
  /\ probe.fovDone
  /\ probe.right # probe.top
  /\ probe.near # probe.top
  /\ Abs(ComputeCotangent(Quot(probe.fov, 2)) - Div(probe.near, probe.top))
       <= Tolerance
  /\ probe.aspect = Div(probe.right, probe.top)
  /\ probe.general[1][1] # probe.general[2][2]

\* C12: every index of the Model is less than the number of vertices it
\* holds, the element buffer holds the Model's indices, and the number of
\* indices drawn in a frame is the number of indices of the Model and of
\* the element buffer.
C12_IndicesInRange ==
  /\ model.constructed =>
       \A i \in 1..Len(model.indices_) :
         /\ model.indices_[i] >= 0
         /\ model.indices_[i] < Len(model.vertices_)
  /\ buffers.ebo # 0 => buffers.eboData = model.indices_
  /\ frame.drawn > 0 =>
       /\ frame.drawCount = Len(model.indices_)
       /\ frame.drawCount = Len(buffers.eboData)
       /\ \A i \in 1..frame.drawCount :
            buffers.eboData[i] < Len(model.vertices_)

C12_Witness ==
  /\ pc = "swap_buffers"
  /\ model.constructed
  /\ buffers.ebo # 0
  /\ frame.drawn > 0
  /\ frame.drawCount = 6

\* C13: KeyCallback sets the should-close flag exactly on a press of the
\* Escape key; on any other key or action the flag keeps its value, and a
\* flag that is set stays set.
C13_EscapePressOnly ==
  probe.called =>
    /\ (probe.key = GLFW_KEY_ESCAPE /\ probe.action = GLFW_PRESS) =>
         probe.flagAfter
    /\ ~(probe.key = GLFW_KEY_ESCAPE /\ probe.action = GLFW_PRESS) =>
         probe.flagAfter = probe.flag
    /\ probe.flag => probe.flagAfter

C13_Witness ==
  /\ probe.called
  /\ probe.key = GLFW_KEY_ESCAPE
  /\ probe.action = GLFW_PRESS
  /\ ~probe.flag
  /\ probe.flagAfter

\* C14: the aspect ratio given to ComputeProjectionMatrix at setup is the
\* ratio of the window's width to its height, 640/480 = 4/3, so that in
\* the projection matrix x_scale = y_scale * 3/4.
C14_AspectIsWindowRatio ==
  mathArgs.projCalls > 0 =>
    /\ Abs(mathArgs.aspect - Div(kWindowWidth, kWindowHeight)) <= Tolerance
    /\ Abs(mathArgs.aspect - Div(4 * ONE, 3 * ONE)) <= Tolerance
    /\ Abs(projection_matrix[1][1] - Quot(projection_matrix[2][2] * 3, 4))
         <= Tolerance

====
